---- MODULE Spec2Model ----
(***************************************************************************)
(* Value representation core of gopher-lua (value.go): the LValue kinds,   *)
(* the coercion helpers, the fmt.Formatter implementations of LString and  *)
(* LNumber, the per-kind Index/AssertFunction/Type methods, the LTable     *)
(* storage parts and LChannel.                                             *)
(*                                                                         *)
(* Go strings are sequences of one-character strings.  An LNumber is a     *)
(* fixed-point integer counting units of 1/Den, so that fractional values  *)
(* and truncation are exact.                                               *)
(***************************************************************************)
EXTENDS Integers, Sequences, FiniteSets, TLC

\* ------------------------------------------------------------------ bounds
MaxLen == 3
NumTables == 2
NumFunctions == 2
MaxHeapOps == 3
MaxCap == 2
MaxSends == 3
NumSenders == 2
NumReceivers == 2
MaxKey == 4

VARIABLES heap, nops, call, input, ch, sent, received, tab, setKeys, plain

\* ----------------------------------------------------------- Go strings
Alphabet == {"0", "1", "5", ".", "x", "a", "-"}
Digits == {"0", "1", "5"}
HexDigits == Digits \cup {"a"}

Strs == UNION {[1..n -> Alphabet] : n \in 0..MaxLen}

RECURSIVE Pow10(_)
Pow10(n) == IF n = 0 THEN 1 ELSE 10 * Pow10(n - 1)

\* one unit of an LNumber is 1/Den
Den == Pow10(MaxLen)

DigitVal(c) == CASE c = "0" -> 0 [] c = "1" -> 1 [] c = "5" -> 5 [] c = "a" -> 10

DigitChar(d) ==
    CASE d = 0 -> "0" [] d = 1 -> "1" [] d = 2 -> "2" [] d = 3 -> "3"
      [] d = 4 -> "4" [] d = 5 -> "5" [] d = 6 -> "6" [] d = 7 -> "7"
      [] d = 8 -> "8" [] d = 9 -> "9"

RECURSIVE BaseVal(_, _)
BaseVal(s, base) ==
    IF Len(s) = 0 THEN 0
    ELSE BaseVal(SubSeq(s, 1, Len(s) - 1), base) * base + DigitVal(s[Len(s)])

AllIn(s, S) == \A i \in 1..Len(s) : s[i] \in S

\* ------------------------------------------------------------- LNumber
isInteger(nm) == nm % Den = 0

\* Go's int64(nm): truncation toward zero
ToInt64(nm) == IF nm >= 0 THEN nm \div Den ELSE -((-nm) \div Den)

\* Go's float64(nm): the value itself
ToFloat64(nm) == nm

IsDecInt(s) == Len(s) > 0 /\ AllIn(s, Digits)
IsHexInt(s) ==
    /\ Len(s) >= 3
    /\ s[1] = "0"
    /\ s[2] = "x"
    /\ AllIn(SubSeq(s, 3, Len(s)), HexDigits)
IsDecFloat(s) ==
    /\ Len(s) >= 2
    /\ \E p \in 1..Len(s) :
          /\ s[p] = "."
          /\ AllIn(SubSeq(s, 1, p - 1), Digits)
          /\ AllIn(SubSeq(s, p + 1, Len(s)), Digits)

DotPos(s) == CHOOSE p \in 1..Len(s) : s[p] = "."

DecFloatVal(s) ==
    LET p == DotPos(s)
        ip == SubSeq(s, 1, p - 1)
        fp == SubSeq(s, p + 1, Len(s))
    IN  BaseVal(ip, 10) * Den + BaseVal(fp, 10) * Pow10(MaxLen - Len(fp))

Unsigned(s) == IF Len(s) > 0 /\ s[1] = "-" THEN Tail(s) ELSE s
Sign(s) == IF Len(s) > 0 /\ s[1] = "-" THEN -1 ELSE 1

\* parseNumber: (LNumber, error); err = TRUE stands for a non-nil error,
\* and the number returned with an error is LNumber(0)
parseNumber(s) ==
    LET u == Unsigned(s) IN
    IF IsDecInt(u) THEN [num |-> Sign(s) * BaseVal(u, 10) * Den, err |-> FALSE]
    ELSE IF IsHexInt(u)
         THEN [num |-> Sign(s) * BaseVal(SubSeq(u, 3, Len(u)), 16) * Den, err |-> FALSE]
    ELSE IF IsDecFloat(u) THEN [num |-> Sign(s) * DecFloatVal(u), err |-> FALSE]
    ELSE [num |-> 0, err |-> TRUE]

RECURSIVE NatToStr(_)
NatToStr(n) ==
    IF n < 10 THEN <<DigitChar(n)>>
    ELSE Append(NatToStr(n \div 10), DigitChar(n % 10))

\* fmt.Sprint(int64)
SprintInt(i) == IF i < 0 THEN <<"-">> \o NatToStr(-i) ELSE NatToStr(i)

RECURSIVE FracDigits(_, _)
\* the digits of f/10^w, without trailing zeros
FracDigits(f, w) ==
    IF f = 0 \/ w = 0 THEN <<>>
    ELSE <<DigitChar(f \div Pow10(w - 1))>> \o FracDigits(f % Pow10(w - 1), w - 1)

\* fmt.Sprint(float64): shortest representation that round-trips
SprintFloat(x) ==
    LET a == IF x < 0 THEN -x ELSE x
        sg == IF x < 0 THEN <<"-">> ELSE <<>>
        fr == FracDigits(a % Den, MaxLen)
    IN  sg \o NatToStr(a \div Den) \o (IF fr = <<>> THEN <<>> ELSE <<".">> \o fr)

LNumberString(nm) ==
    IF isInteger(nm) THEN SprintInt(ToInt64(nm)) ELSE SprintFloat(ToFloat64(nm))

\* -------------------------------------------------------- LValueType
LTNil == 0
LTBool == 1
LTNumber == 2
LTString == 3
LTFunction == 4
LTUserData == 5
LTThread == 6
LTTable == 7
LTChannel == 8
LTObject == 9

\* the declared constants of LValueType
LValueType ==
    {LTNil, LTBool, LTNumber, LTString, LTFunction, LTUserData, LTThread,
     LTTable, LTChannel, LTObject}

lValueNames ==
    <<"nil", "boolean", "number", "string", "function", "userdata", "thread",
      "table", "channel", "object">>

\* Go arrays are indexed from 0
LValueTypeString(vt) == lValueNames[vt + 1]

\* ------------------------------------------------------------- LValue
\* Scalars carry their payload; reference kinds carry the identity of the
\* instance they point to.
LNil == [kind |-> "nil"]
LBool(b) == [kind |-> "bool", b |-> b]
LTrue == LBool(TRUE)
LFalse == LBool(FALSE)
LNumber(n) == [kind |-> "number", n |-> n]
LString(s) == [kind |-> "string", s |-> s]
LFunction(id) == [kind |-> "function", fn |-> id]
LUserData(id) == [kind |-> "userdata", ud |-> id]
LState(id) == [kind |-> "thread", th |-> id]
LTable(id) == [kind |-> "table", tb |-> id]
LChannel(id) == [kind |-> "channel", ch |-> id]

\* a nil *LFunction
NilFunction == [kind |-> "nilptr"]

LVIsFalse(v) == v = LNil \/ v = LFalse

LVAsBool_ZeroFalse(v) == v # LNil /\ v # LFalse /\ v # LNumber(0)
LVAsBool(v) == v # LNil /\ v # LFalse

LVAsString(v) ==
    IF v.kind = "string" THEN v.s
    ELSE IF v.kind = "number" THEN LNumberString(v.n)
    ELSE <<>>

LVCanConvToString(v) == v.kind \in {"string", "number"}

LVAsNumber_NoParse(v) == IF v.kind = "number" THEN LNumber(v.n) ELSE LNumber(0)
LVAsNumber(v) ==
    IF v.kind = "number" THEN LNumber(v.n)
    ELSE IF v.kind = "string" /\ ~parseNumber(v.s).err
         THEN LNumber(parseNumber(v.s).num)
    ELSE LNumber(0)

\* ---------------------------------------------------- fmt.Formatter
\* What reaches fmt: the Go value handed to defaultFormat and the verb.
Int64Arg(i) == [go |-> "int64", i |-> i]
Float64Arg(x) == [go |-> "float64", x |-> x]
StringArg(s) == [go |-> "string", s |-> s]

defaultFormat(v, c) == [arg |-> v, verb |-> c]

LNumberFormat_VerbI(nm, c) ==
    IF c \in {"q", "s"} THEN defaultFormat(StringArg(LNumberString(nm)), c)
    ELSE IF c \in {"b", "c", "d", "o", "x", "X", "U"}
         THEN defaultFormat(Int64Arg(ToInt64(nm)), c)
    ELSE IF c \in {"e", "E", "f", "F", "g", "G"}
         THEN defaultFormat(Float64Arg(ToFloat64(nm)), c)
    ELSE IF isInteger(nm) THEN defaultFormat(Int64Arg(ToInt64(nm)), c)
         ELSE defaultFormat(Float64Arg(ToFloat64(nm)), c)
LNumberFormat(nm, c) ==
    IF c \in {"q", "s"} THEN defaultFormat(StringArg(LNumberString(nm)), c)
    ELSE IF c \in {"b", "c", "d", "o", "x", "X", "U"}
         THEN defaultFormat(Int64Arg(ToInt64(nm)), c)
    ELSE IF c \in {"e", "E", "f", "F", "g", "G"}
         THEN defaultFormat(Float64Arg(ToFloat64(nm)), c)
    ELSE IF c = "i" THEN defaultFormat(Int64Arg(ToInt64(nm)), "d")
    ELSE IF isInteger(nm) THEN defaultFormat(Int64Arg(ToInt64(nm)), c)
         ELSE defaultFormat(Float64Arg(ToFloat64(nm)), c)

\* defaultFormat(nm, f, 'd') with nm an LNumber prints through nm's own
\* Formatter, i.e. LNumberFormat(nm, 'd')
LStringFormat(st, c) ==
    IF c \in {"d", "i"}
    THEN IF parseNumber(st).err
         THEN LNumberFormat(parseNumber(st).num, "d")
         ELSE defaultFormat(StringArg(st), "s")
    ELSE defaultFormat(StringArg(st), c)

\* ------------------------------------------------ per-kind methods
LNilTypeType(v) == LTNil
LBoolType(v) == LTBool
LNumberType(v) == LTNumber
LStringType(v) == LTString
LFunctionType(v) == LTFunction
LUserDataType(v) == LTUserData
LStateType(v) == LTThread
LTableType(v) == LTTable
LChannelType_Object(v) == LTObject
LChannelType(v) == LTChannel

\* dynamic dispatch of v.Type()
Type(v) ==
    CASE v.kind = "nil" -> LNilTypeType(v)
      [] v.kind = "bool" -> LBoolType(v)
      [] v.kind = "number" -> LNumberType(v)
      [] v.kind = "string" -> LStringType(v)
      [] v.kind = "function" -> LFunctionType(v)
      [] v.kind = "userdata" -> LUserDataType(v)
      [] v.kind = "thread" -> LStateType(v)
      [] v.kind = "table" -> LTableType(v)
      [] v.kind = "channel" -> LChannelType(v)

LNilTypeAssertFunction(v) == [fn |-> NilFunction, ok |-> FALSE]
LBoolAssertFunction(v) == [fn |-> NilFunction, ok |-> FALSE]
LNumberAssertFunction(v) == [fn |-> NilFunction, ok |-> FALSE]
LStringAssertFunction(v) == [fn |-> NilFunction, ok |-> FALSE]
LFunctionAssertFunction_NotFound(v) == [fn |-> NilFunction, ok |-> FALSE]
LFunctionAssertFunction(v) == [fn |-> v, ok |-> TRUE]
LUserDataAssertFunction(v) == [fn |-> NilFunction, ok |-> FALSE]
LStateAssertFunction(v) == [fn |-> NilFunction, ok |-> FALSE]
LTableAssertFunction(v) == [fn |-> NilFunction, ok |-> FALSE]
LChannelAssertFunction(v) == [fn |-> NilFunction, ok |-> FALSE]

\* dynamic dispatch of v.AssertFunction()
AssertFunction(v) ==
    CASE v.kind = "nil" -> LNilTypeAssertFunction(v)
      [] v.kind = "bool" -> LBoolAssertFunction(v)
      [] v.kind = "number" -> LNumberAssertFunction(v)
      [] v.kind = "string" -> LStringAssertFunction(v)
      [] v.kind = "function" -> LFunctionAssertFunction(v)
      [] v.kind = "userdata" -> LUserDataAssertFunction(v)
      [] v.kind = "thread" -> LStateAssertFunction(v)
      [] v.kind = "table" -> LTableAssertFunction(v)
      [] v.kind = "channel" -> LChannelAssertFunction(v)

\* Index(L, key) on each kind: the value returned and the heap it leaves.
\* h is the heap of tables, userdata and threads the receiver and L live in.
LNilTypeIndex(h, v, L, key) == [ret |-> LNil, heap |-> h]
LBoolIndex(h, v, L, key) == [ret |-> LNil, heap |-> h]
LStringIndex(h, v, L, key) == [ret |-> LNil, heap |-> h]
LNumberIndex(h, v, L, key) == [ret |-> LNil, heap |-> h]
LTableIndex(h, v, L, key) == [ret |-> LNil, heap |-> h]
LFunctionIndex(h, v, L, key) == [ret |-> LNil, heap |-> h]
LStateIndex(h, v, L, key) == [ret |-> LNil, heap |-> h]
LUserDataIndex(h, v, L, key) == [ret |-> LNil, heap |-> h]
LChannelIndex_Key(h, v, L, key) == [ret |-> LString(key), heap |-> h]
LChannelIndex(h, v, L, key) == [ret |-> LNil, heap |-> h]

\* dynamic dispatch of v.Index(L, key)
Index(h, v, L, key) ==
    CASE v.kind = "nil" -> LNilTypeIndex(h, v, L, key)
      [] v.kind = "bool" -> LBoolIndex(h, v, L, key)
      [] v.kind = "number" -> LNumberIndex(h, v, L, key)
      [] v.kind = "string" -> LStringIndex(h, v, L, key)
      [] v.kind = "function" -> LFunctionIndex(h, v, L, key)
      [] v.kind = "userdata" -> LUserDataIndex(h, v, L, key)
      [] v.kind = "thread" -> LStateIndex(h, v, L, key)
      [] v.kind = "table" -> LTableIndex(h, v, L, key)
      [] v.kind = "channel" -> LChannelIndex(h, v, L, key)

\* ------------------------------------------------------------- LTable
EmptyMap == [x \in {} |-> LNil]

MapPut(f, k, v) == [x \in DOMAIN f \cup {k} |-> IF x = k THEN v ELSE f[x]]
MapDel(f, k) == [x \in DOMAIN f \ {k} |-> f[x]]

newLTable ==
    [Metatable |-> LNil, array |-> <<>>, dict |-> EmptyMap,
     strdict |-> EmptyMap, keys |-> <<>>, k2i |-> EmptyMap]

\* a positive integer key, the only kind the array part can hold
IsArrayKey(key) == key.kind = "number" /\ isInteger(key.n) /\ key.n >= Den
ArrayIndex(key) == ToInt64(key.n)

InHash(tb, key) ==
    IF key.kind = "string" THEN key.s \in DOMAIN tb.strdict
    ELSE key \in DOMAIN tb.dict

\* array part first, then the string map, then the general hash part
RawGet(tb, key) ==
    IF IsArrayKey(key) /\ ArrayIndex(key) <= Len(tb.array)
    THEN tb.array[ArrayIndex(key)]
    ELSE IF key.kind = "string"
         THEN IF key.s \in DOMAIN tb.strdict THEN tb.strdict[key.s] ELSE LNil
    ELSE IF key \in DOMAIN tb.dict THEN tb.dict[key] ELSE LNil

\* store in the hash part for the key's kind; a new key is appended to the
\* ordered key sequence and its position recorded
HashPut(tb, key, value) ==
    LET t1 == IF key.kind = "string"
              THEN [tb EXCEPT !.strdict = MapPut(@, key.s, value)]
              ELSE [tb EXCEPT !.dict = MapPut(@, key, value)]
    IN  IF InHash(tb, key) THEN t1
        ELSE [t1 EXCEPT !.keys = Append(@, key),
                        !.k2i = MapPut(@, key, Len(tb.keys) + 1)]

\* remove from the hash part, splice the key out of the ordered sequence
\* and compact the positions after it
HashRemove(tb, key) ==
    IF ~InHash(tb, key) THEN tb
    ELSE LET i == tb.k2i[key]
             t1 == IF key.kind = "string"
                   THEN [tb EXCEPT !.strdict = MapDel(@, key.s)]
                   ELSE [tb EXCEPT !.dict = MapDel(@, key)]
         IN  [t1 EXCEPT
                !.keys = SubSeq(@, 1, i - 1) \o SubSeq(@, i + 1, Len(@)),
                !.k2i = [x \in DOMAIN @ \ {key} |->
                            IF @[x] > i THEN @[x] - 1 ELSE @[x]]]

Migrate_None(tb) == tb

RECURSIVE Migrate(_)
\* move the contiguous integer keys that follow the array part out of the
\* hash part and onto the end of the array part
Migrate(tb) ==
    LET nxt == LNumber((Len(tb.array) + 1) * Den) IN
    IF nxt \in DOMAIN tb.dict
    THEN Migrate([HashRemove(tb, nxt) EXCEPT !.array = Append(@, tb.dict[nxt])])
    ELSE tb

RawSet(tb, key, value) ==
    IF IsArrayKey(key) /\ ArrayIndex(key) <= Len(tb.array)
    THEN [tb EXCEPT !.array[ArrayIndex(key)] = value]
    ELSE IF value = LNil THEN HashRemove(tb, key)
    ELSE IF IsArrayKey(key) /\ ArrayIndex(key) = Len(tb.array) + 1
         THEN Migrate([tb EXCEPT !.array = Append(@, value)])
    ELSE HashPut(tb, key, value)

TableLen(tb) == Len(tb.array)

\* ----------------------------------------------------------- LChannel
\* type LChannel chan LValue: a Go channel.  buf is the buffer, sendq the
\* senders parked with their value, recvq the parked receivers.
make(cap) ==
    [cap |-> cap, buf |-> <<>>, sendq |-> <<>>, recvq |-> <<>>, closed |-> FALSE]

Parked(q, t) == \E i \in 1..Len(q) : q[i].th = t

\* c <- v by thread t: hand to a parked receiver, else buffer, else park.
\* got is the value a receiver obtained in this step, if any.
chansend(c, t, v) ==
    IF Len(c.recvq) > 0
    THEN [ch |-> [c EXCEPT !.recvq = Tail(@)], got |-> <<v>>]
    ELSE IF Len(c.buf) < c.cap
         THEN [ch |-> [c EXCEPT !.buf = Append(@, v)], got |-> <<>>]
    ELSE [ch |-> [c EXCEPT !.sendq = Append(@, [th |-> t, v |-> v])],
          got |-> <<>>]

\* <-c by thread r: with a parked sender, take the head of the buffer (or of
\* the sender itself when unbuffered) and let the sender's value in at the
\* tail; else take from the buffer; else, if open, park.
chanrecv_SenderFirst(c, r) ==
    IF Len(c.sendq) > 0
    THEN [ch |-> [c EXCEPT !.sendq = Tail(@)], got |-> <<Head(c.sendq).v>>]
    ELSE IF Len(c.buf) > 0
         THEN [ch |-> [c EXCEPT !.buf = Tail(@)], got |-> <<Head(c.buf)>>]
    ELSE IF c.closed THEN [ch |-> c, got |-> <<>>]
    ELSE [ch |-> [c EXCEPT !.recvq = Append(@, [th |-> r])], got |-> <<>>]
chanrecv(c, r) ==
    IF Len(c.sendq) > 0
    THEN LET all == Append(c.buf, Head(c.sendq).v) IN
         [ch |-> [c EXCEPT !.buf = Tail(all), !.sendq = Tail(@)],
          got |-> <<Head(all)>>]
    ELSE IF Len(c.buf) > 0
         THEN [ch |-> [c EXCEPT !.buf = Tail(@)], got |-> <<Head(c.buf)>>]
    ELSE IF c.closed THEN [ch |-> c, got |-> <<>>]
    ELSE [ch |-> [c EXCEPT !.recvq = Append(@, [th |-> r])], got |-> <<>>]

\* close(c): parked receivers wake with the closed indication, parked
\* senders panic and their values are never sent
closechan(c) == [c EXCEPT !.closed = TRUE, !.sendq = <<>>, !.recvq = <<>>]

\* --------------------------------------------------------------- heap
TableIds == 1..NumTables
FunctionIds == 1..NumFunctions

Tables == {LTable(i) : i \in TableIds}
Functions == {LFunction(i) : i \in FunctionIds}

newLUserData == [Metatable |-> LNil]
newLState == [Dead |-> FALSE]

IndexKey == <<"_", "_", "i", "n", "d", "e", "x">>
IndexArgs == {IndexKey, <<"a">>}

\* the values the methods are applied to
Values ==
    {LNil, LTrue, LFalse, LNumber(0), LNumber(Den), LString(<<>>),
     LString(<<"a">>), LUserData(1), LState(1), LChannel(1)}
      \cup Tables \cup Functions

\* the entries stored in the heap's tables: an index-fallback table under
\* "__index", a number under "a"
Stored == {<<IndexKey, t>> : t \in Tables} \cup {<<<<"a">>, LNumber(Den)>>}

vars == <<heap, nops, call, input, ch, sent, received, tab, setKeys, plain>>

valueVars == <<heap, nops, input>>
chanVars == <<ch, sent, received>>
tableVars == <<tab, setKeys, plain>>

\* the state after construction: empty tables, objects without metatable,
\* an open empty channel, nothing called yet
Fresh ==
    /\ heap = [tb |-> [i \in TableIds |-> newLTable],
               ud |-> [i \in {1} |-> newLUserData],
               th |-> [i \in {1} |-> newLState]]
    /\ nops = 0
    /\ call = [name |-> "init"]
    /\ sent = <<>>
    /\ received = <<>>
    /\ tab = newLTable
    /\ setKeys = {}
    /\ plain = TRUE

Init ==
    /\ Fresh
    /\ input = [v |-> LNil, c |-> "v"]
    /\ ch = make(0)

IndexStep(v, L, key) ==
    LET r == Index(heap, v, L, key) IN
    /\ heap' = r.heap
    /\ call' = [name |-> "Index", arg |-> v, L |-> L, key |-> key, ret |-> r.ret]
    /\ UNCHANGED <<nops, input, chanVars, tableVars>>

\* tb.Metatable = mt
SetTableMetatable(t, mt) ==
    /\ nops < MaxHeapOps
    /\ heap' = [heap EXCEPT !.tb[t].Metatable = mt]
    /\ nops' = nops + 1
    /\ call' = [name |-> "SetMetatable"]
    /\ UNCHANGED <<input, chanVars, tableVars>>

\* ud.Metatable = mt
SetUserDataMetatable(u, mt) ==
    /\ nops < MaxHeapOps
    /\ heap' = [heap EXCEPT !.ud[u].Metatable = mt]
    /\ nops' = nops + 1
    /\ call' = [name |-> "SetMetatable"]
    /\ UNCHANGED <<input, chanVars, tableVars>>

RawSetString(t, key, value) ==
    /\ nops < MaxHeapOps
    /\ heap' = [heap EXCEPT !.tb[t] = RawSet(@, LString(key), value)]
    /\ nops' = nops + 1
    /\ call' = [name |-> "RawSetString"]
    /\ UNCHANGED <<input, chanVars, tableVars>>

Next ==
    \/ \E v \in Values, key \in IndexArgs : IndexStep(v, LState(1), key)
    \/ \E t \in TableIds, mt \in Tables \cup {LNil} : SetTableMetatable(t, mt)
    \/ \E mt \in Tables \cup {LNil} : SetUserDataMetatable(1, mt)
    \/ \E t \in TableIds, e \in Stored : RawSetString(t, e[1], e[2])

Spec == Init /\ [][Next]_vars

\* ------------------------------------------- coercions and formatting
Nums == {parseNumber(st).num : st \in Strs}

ScalarValues ==
    {LNil, LTrue, LFalse, LUserData(1), LState(1), LTable(1), LChannel(1)}
      \cup Functions \cup {LNumber(n) : n \in Nums} \cup {LString(st) : st \in Strs}

Verbs ==
    {"b", "c", "d", "o", "x", "X", "U", "e", "E", "f", "F", "g", "G", "i",
     "q", "s", "v", "t"}

\* the value and the verb an operation is applied to
Inputs == [v : ScalarValues, c : Verbs]

InitScalar ==
    /\ Fresh
    /\ input \in Inputs
    /\ ch = make(0)

TypeStep ==
    /\ call.name = "init"
    /\ call' = [name |-> "Type", arg |-> input.v, ret |-> Type(input.v)]
    /\ UNCHANGED <<heap, nops, input, chanVars, tableVars>>

TypeStringStep(vt) ==
    /\ call.name = "init"
    /\ call' = [name |-> "LValueType.String", vt |-> vt,
                ret |-> LValueTypeString(vt)]
    /\ UNCHANGED <<heap, nops, input, chanVars, tableVars>>

AssertFunctionStep ==
    /\ call.name = "init"
    /\ call' = [name |-> "AssertFunction", arg |-> input.v,
                ret |-> AssertFunction(input.v)]
    /\ UNCHANGED <<heap, nops, input, chanVars, tableVars>>

LVIsFalseStep ==
    /\ call.name = "init"
    /\ call' = [name |-> "LVIsFalse", arg |-> input.v, ret |-> LVIsFalse(input.v)]
    /\ UNCHANGED <<heap, nops, input, chanVars, tableVars>>

LVAsBoolStep ==
    /\ call.name = "init"
    /\ call' = [name |-> "LVAsBool", arg |-> input.v, ret |-> LVAsBool(input.v)]
    /\ UNCHANGED <<heap, nops, input, chanVars, tableVars>>

LVAsStringStep ==
    /\ call.name = "init"
    /\ call' = [name |-> "LVAsString", arg |-> input.v,
                ret |-> LVAsString(input.v)]
    /\ UNCHANGED <<heap, nops, input, chanVars, tableVars>>

LVCanConvToStringStep ==
    /\ call.name = "init"
    /\ call' = [name |-> "LVCanConvToString", arg |-> input.v,
                ret |-> LVCanConvToString(input.v)]
    /\ UNCHANGED <<heap, nops, input, chanVars, tableVars>>

LVAsNumberStep ==
    /\ call.name = "init"
    /\ call' = [name |-> "LVAsNumber", arg |-> input.v,
                ret |-> LVAsNumber(input.v)]
    /\ UNCHANGED <<heap, nops, input, chanVars, tableVars>>

LNumberStringStep ==
    /\ call.name = "init"
    /\ input.v.kind = "number"
    /\ call' = [name |-> "LNumber.String", nm |-> input.v.n,
                ret |-> LNumberString(input.v.n)]
    /\ UNCHANGED <<heap, nops, input, chanVars, tableVars>>

LNumberFormatStep ==
    /\ call.name = "init"
    /\ input.v.kind = "number"
    /\ call' = [name |-> "LNumber.Format", nm |-> input.v.n, verb |-> input.c,
                ret |-> LNumberFormat(input.v.n, input.c)]
    /\ UNCHANGED <<heap, nops, input, chanVars, tableVars>>

LStringFormatStep ==
    /\ call.name = "init"
    /\ input.v.kind = "string"
    /\ call' = [name |-> "LString.Format", st |-> input.v.s, verb |-> input.c,
                ret |-> LStringFormat(input.v.s, input.c)]
    /\ UNCHANGED <<heap, nops, input, chanVars, tableVars>>

NextScalar ==
    \/ TypeStep
    \/ \E vt \in LValueType : TypeStringStep(vt)
    \/ AssertFunctionStep
    \/ LVIsFalseStep
    \/ LVAsBoolStep
    \/ LVAsStringStep
    \/ LVCanConvToStringStep
    \/ LVAsNumberStep
    \/ LNumberStringStep
    \/ LNumberFormatStep
    \/ LStringFormatStep

SpecScalar == InitScalar /\ [][NextScalar]_vars

\* ------------------------------------------------- channel operations
SenderIds == 1..NumSenders
ReceiverIds == (NumSenders + 1)..(NumSenders + NumReceivers)
ChanValues == {LNumber(Den), LNumber(2 * Den), LString(<<"a">>)}

InitChannel ==
    /\ Fresh
    /\ input = [v |-> LNil, c |-> "v"]
    /\ \E cap \in 0..MaxCap : ch = make(cap)

Send(t, v) ==
    /\ ~ch.closed
    /\ ~Parked(ch.sendq, t)
    /\ Len(sent) < MaxSends
    /\ LET r == chansend(ch, t, v) IN
          /\ ch' = r.ch
          /\ received' = received \o r.got
    /\ sent' = Append(sent, v)
    /\ call' = [name |-> "send", th |-> t]
    /\ UNCHANGED <<valueVars, tableVars>>

Receive(t) ==
    /\ ~Parked(ch.recvq, t)
    /\ LET r == chanrecv(ch, t) IN
          /\ ch' = r.ch
          /\ received' = received \o r.got
    /\ call' = [name |-> "receive", th |-> t]
    /\ UNCHANGED <<sent, valueVars, tableVars>>

Close ==
    /\ ~ch.closed
    /\ ch' = closechan(ch)
    /\ sent' = SubSeq(sent, 1, Len(sent) - Len(ch.sendq))
    /\ call' = [name |-> "close"]
    /\ UNCHANGED <<received, valueVars, tableVars>>

NextChannel ==
    \/ \E t \in SenderIds, v \in ChanValues : Send(t, v)
    \/ \E t \in ReceiverIds : Receive(t)
    \/ Close

SpecChannel == InitChannel /\ [][NextChannel]_vars

\* --------------------------------------------------- table operations
IntKey(k) == LNumber(k * Den)
TableKeys ==
    {IntKey(k) : k \in 1..MaxKey} \cup {LString(<<"a">>), LNumber(Den \div 2)}
TableValues == {LNil, LNumber(Den), LString(<<"a">>)}

\* setKeys and plain record the history: the integer keys set so far, and
\* whether every set so far had a positive-integer key and a non-nil value
TableSet(key, value) ==
    /\ tab' = RawSet(tab, key, value)
    /\ plain' = (plain /\ IsArrayKey(key) /\ value # LNil)
    /\ setKeys' = IF plain' THEN setKeys \cup {ArrayIndex(key)} ELSE {}
    /\ call' = [name |-> "RawSet", key |-> key, value |-> value,
                len |-> TableLen(tab)]
    /\ UNCHANGED <<valueVars, chanVars>>

NextTable == \E key \in TableKeys, value \in TableValues : TableSet(key, value)

SpecTable == Init /\ [][NextTable]_vars

\* ------------------------------------------------------------ properties
NineTags ==
    {LTNil, LTBool, LTNumber, LTString, LTFunction, LTUserData, LTThread,
     LTTable, LTChannel}

\* the tag and the name each kind is expected to report
KindTag ==
    [nil |-> 0, bool |-> 1, number |-> 2, string |-> 3, function |-> 4,
     userdata |-> 5, thread |-> 6, table |-> 7, channel |-> 8]
KindName ==
    [nil |-> "nil", bool |-> "boolean", number |-> "number",
     string |-> "string", function |-> "function", userdata |-> "userdata",
     thread |-> "thread", table |-> "table", channel |-> "channel"]

\* C2: AssertFunction returns the receiver itself with found = true for a
\* Function value, and no function with found = false for every other kind.
C2_AssertFunctionOnlyFunction ==
    call.name = "AssertFunction" =>
        IF call.arg.kind = "function"
        THEN call.ret.ok /\ call.ret.fn = call.arg
        ELSE ~call.ret.ok /\ call.ret.fn = NilFunction

C2_Witness ==
    /\ call.name = "AssertFunction"
    /\ call.arg = LFunction(2)
    /\ call.ret.ok
    /\ call.ret.fn = LFunction(2)

\* the metatable an object carries (threads have none)
MetatableOf(v) ==
    IF v.kind = "table" THEN heap.tb[v.tb].Metatable
    ELSE IF v.kind = "userdata" THEN heap.ud[v.ud].Metatable
    ELSE LNil

\* the value the metatable's index-fallback table holds under key, if any
FallbackValue(v, key) ==
    LET mt == MetatableOf(v) IN
    IF mt.kind # "table" THEN LNil
    ELSE LET idx == RawGet(heap.tb[mt.tb], LString(IndexKey)) IN
         IF idx.kind # "table" THEN LNil
         ELSE RawGet(heap.tb[idx.tb], LString(key))

\* C5: Index on a Table or Userdata whose metatable's index-fallback entry
\* is a table holding a non-nil value under the key returns that value.
C5_IndexThroughMetatable ==
    (/\ call.name = "Index"
     /\ call.arg.kind \in {"table", "userdata"}
     /\ FallbackValue(call.arg, call.key) # LNil)
        => call.ret = FallbackValue(call.arg, call.key)

\* C6: Index on a Nil, Boolean, Number, String, Function or Channel, or on a
\* Table, Userdata or Thread without a metatable, returns Nil and leaves the
\* receiver and the context (the whole heap) unchanged.
C6_IndexNilAndFrame ==
    [][(/\ call'.name = "Index"
        /\ MetatableOf(call'.arg) = LNil)
          => call'.ret = LNil /\ heap' = heap]_vars

C6_Witness ==
    /\ call.name = "Index"
    /\ call.arg = LTable(1)
    /\ call.key = <<"a">>
    /\ heap.tb[1].Metatable = LNil
    /\ RawGet(heap.tb[1], LString(<<"a">>)) # LNil
    /\ call.ret = LNil

\* C7 as stated: every type tag is one of the nine kinds' tags.
C7_NineTagsOnly ==
    /\ call.name = "LValueType.String" => call.vt \in NineTags
    /\ call.name = "Type" => call.ret \in NineTags

\* C7 amended: ten tags are declared, the nine kinds' tags and LTObject
\* ("object"); Type() of every value is its own kind's tag, one of the
\* nine and distinct from the other eight, and String() of a tag is the
\* kind's name.
C7_TenTagsNineKinds ==
    /\ call.name = "Type" =>
          /\ call.ret \in NineTags
          /\ call.ret = KindTag[call.arg.kind]
          /\ \A v \in Values : v.kind # call.arg.kind => Type(v) # call.ret
    /\ call.name = "LValueType.String" =>
          /\ call.vt \in NineTags \cup {LTObject}
          /\ call.vt = LTObject => call.ret = "object"
          /\ \A k \in DOMAIN KindTag :
                call.vt = KindTag[k] => call.ret = KindName[k]

C7_Witness ==
    /\ call.name = "LValueType.String"
    /\ call.vt = LTObject
    /\ call.ret = "object"

\* C1: LVIsFalse(v) holds exactly for Nil and the boolean false, LVAsBool(v)
\* is its negation, and the number 0 and the empty string are truthy.
C1_Falsiness ==
    LET falseLike(v) == v.kind = "nil" \/ (v.kind = "bool" /\ ~v.b) IN
    /\ call.name = "LVIsFalse" => call.ret = falseLike(call.arg)
    /\ call.name = "LVAsBool" => call.ret = ~falseLike(call.arg)
    /\ (call.name = "LVAsBool" /\ call.arg \in {LNumber(0), LString(<<>>)})
          => call.ret = TRUE

C1_Witness ==
    /\ call.name = "LVAsBool"
    /\ call.arg = LNumber(0)
    /\ call.ret = TRUE

IntegerVerbs == {"b", "c", "d", "o", "x", "X", "U"}
FloatVerbs == {"e", "E", "f", "F", "g", "G"}
TextVerbs == {"q", "s"}

\* C3: a String under a numeric verb is rendered as the parsed number under
\* that verb when it parses, and as plain text when it does not.
C3_StringNumericVerb ==
    (call.name = "LString.Format"
       /\ call.verb \in IntegerVerbs \cup FloatVerbs \cup {"i"}) =>
        IF parseNumber(call.st).err
        THEN call.ret = defaultFormat(StringArg(call.st), "s")
        ELSE call.ret = LNumberFormat(parseNumber(call.st).num, call.verb)

\* C4: LVAsNumber returns a Number unchanged, the parsed number for a String
\* that parses, and exactly 0 for every other value.
C4_AsNumber ==
    call.name = "LVAsNumber" =>
        LET v == call.arg IN
        IF v.kind = "number" THEN call.ret = v
        ELSE IF v.kind = "string" /\ (IsDecInt(Unsigned(v.s))
                  \/ IsHexInt(Unsigned(v.s)) \/ IsDecFloat(Unsigned(v.s)))
             THEN call.ret = LNumber(parseNumber(v.s).num)
        ELSE call.ret = LNumber(0)

C4_Witness ==
    /\ call.name = "LVAsNumber"
    /\ call.arg = LString(<<"0", "x", "a">>)
    /\ call.ret = LNumber(10 * Den)

NoPoint(st) == \A i \in 1..Len(st) : st[i] # "."

\* C8: a Number is rendered from its integer-truncated value under the
\* integer verbs (i as d), from its floating value under the float verbs,
\* from String() under q and s, and under any other verb from the integer
\* value exactly when it is an integer; String() is integer-style exactly
\* when it is an integer.
C8_NumberFormat ==
    LET nm == call.nm
        whole == nm % Den = 0
        trunc == IF nm >= 0 THEN nm \div Den ELSE -((-nm) \div Den)
    IN
    /\ call.name = "LNumber.Format" =>
          LET c == call.verb IN
          /\ c \in IntegerVerbs => call.ret = [arg |-> Int64Arg(trunc), verb |-> c]
          /\ c = "i" => call.ret = [arg |-> Int64Arg(trunc), verb |-> "d"]
          /\ c \in FloatVerbs => call.ret = [arg |-> Float64Arg(nm), verb |-> c]
          /\ c \in TextVerbs =>
                call.ret = [arg |-> StringArg(LNumberString(nm)), verb |-> c]
          /\ c \notin IntegerVerbs \cup FloatVerbs \cup TextVerbs \cup {"i"} =>
                call.ret = IF whole THEN [arg |-> Int64Arg(trunc), verb |-> c]
                           ELSE [arg |-> Float64Arg(nm), verb |-> c]
    /\ call.name = "LNumber.String" =>
          /\ whole <=> NoPoint(call.ret)
          /\ whole => call.ret = SprintInt(trunc)

C8_Witness ==
    /\ call.name = "LNumber.Format"
    /\ call.nm = -(Den \div 2)
    /\ call.verb = "i"
    /\ call.ret = [arg |-> Int64Arg(0), verb |-> "d"]

PendingValues == [i \in 1..Len(ch.sendq) |-> ch.sendq[i].v]

\* C9: the values obtained by successive receives are a prefix of the values
\* sent, in send order; every value sent is received, buffered or held by
\* its parked sender, exactly once.
C9_ChannelFIFO ==
    /\ Len(received) <= Len(sent)
    /\ received = SubSeq(sent, 1, Len(received))
    /\ sent = received \o ch.buf \o PendingValues

C9_Witness ==
    /\ ch.cap = 1
    /\ Len(received) = 3
    /\ received = sent
    /\ received[1] # received[2]
    /\ received[2] # received[3]

ArrayKeys(tb) == 1..Len(tb.array)
HashIntKeys(tb) == {ArrayIndex(k) : k \in {x \in DOMAIN tb.dict : IsArrayKey(x)}}

\* C10: after sets of positive-integer keys to non-nil values on an empty
\* table, len() is the largest n with every key 1..n set, exactly the keys
\* 1..len() are in the array part and every other set key is in a hash part;
\* no key is in the array part and a hash part at once; setting key
\* arrayLen+1 moves the contiguous keys that follow it from the hash part
\* into the array part.
C10_ArrayHashPlacement ==
    /\ [](plain =>
            /\ ArrayKeys(tab) \subseteq setKeys
            /\ (TableLen(tab) + 1) \notin setKeys
            /\ \A k \in ArrayKeys(tab) : tab.array[k] # LNil
            /\ HashIntKeys(tab) = setKeys \ ArrayKeys(tab)
            /\ DOMAIN tab.dict = {IntKey(k) : k \in HashIntKeys(tab)}
            /\ DOMAIN tab.strdict = {})
    /\ [](ArrayKeys(tab) \cap HashIntKeys(tab) = {})
    /\ [][(plain' /\ Len(tab'.array) > Len(tab.array)) =>
            \A k \in (Len(tab.array) + 2)..Len(tab'.array) :
                /\ IntKey(k) \in DOMAIN tab.dict
                /\ IntKey(k) \notin DOMAIN tab'.dict
                /\ tab'.array[k] = tab.dict[IntKey(k)]]_vars

C10_Witness ==
    /\ plain
    /\ call.name = "RawSet"
    /\ call.key = IntKey(2)
    /\ call.len = 1
    /\ TableLen(tab) = 4
    /\ setKeys = 1..4
    /\ tab.array[3] # tab.array[4]

====
